---- MODULE Spec2Model ----
(***************************************************************************)
(* Model of whisper-srt/main.py: the in-memory job table `tasks`, the      *)
(* request handlers submit_task, get_task_result and transcribe_directly,  *)
(* the background thread process_audio_task, and the SRT encoder inside    *)
(* generate_srt.                                                           *)
(*                                                                         *)
(* Text is a sequence of Unicode code points.  A timestamp is None or a    *)
(* pair <<s, f>>: s whole seconds and f tenths of a microsecond, so that   *)
(* timedelta's rounding to microseconds is visible.  Every read or write   *)
(* of the shared dictionary is one step of the thread that makes it.       *)
(***************************************************************************)
EXTENDS Integers, Sequences, FiniteSets, TLC

\* ---------------------------------------------------------------- bounds
\* The number of values uuid.uuid4() can draw from.
MaxUuids == 2
\* GET /tasks/<id> requests made in one run.
MaxPolls == 2

\* The longest list of chunks the encoder is given in the encoder runs.
MaxChunks == 2

\* ------------------------------------------------------------- constants
\* Python's None: a value that is no text, no timestamp and no pair of them.
None == <<-1>>
TicksPerMicro == 10
MicrosPerSecond == 1000000
MicrosPerMilli == 1000

\* Code points used by the encoder.
LF == 10
SP == 32
COMMA == 44
HYPHEN == 45
DIGIT0 == 48
COLON == 58
GT == 62

\* str.strip() with no argument removes the characters str.isspace() accepts
\* (those below U+0100 are listed).
Whitespace == {9, 10, 11, 12, 13, 28, 29, 30, 31, 32, 133, 160}

\* ------------------------------------------------ generate_srt, encoding
RECURSIVE Decimal(_)
\* str(n) for n >= 0: the decimal digits of n.
Decimal(n) ==
    IF n < 10 THEN <<DIGIT0 + n>>
    ELSE Decimal(n \div 10) \o <<DIGIT0 + (n % 10)>>

RECURSIVE ZeroPad(_, _)
\* The format specs :02d and :03d: at least w digits, zero-filled.
ZeroPad(digits, w) ==
    IF Len(digits) >= w THEN digits ELSE ZeroPad(<<DIGIT0>> \o digits, w)

Fmt(n, w) == ZeroPad(Decimal(n), w)

\* round(): to the nearest integer, a tie to the even one.
RoundHalfEven(n, d) ==
    LET q == n \div d
        r == n % d
    IN  IF 2 * r < d THEN q
        ELSE IF 2 * r > d THEN q + 1
        ELSE IF q % 2 = 0 THEN q ELSE q + 1

\* timedelta(seconds=x or 0): None counts as 0 and the value is rounded to a
\* whole number of microseconds.  The result is <<seconds, microseconds>>.
TimeDelta(ts) ==
    IF ts = None THEN <<0, 0>>
    ELSE LET us == RoundHalfEven(ts[2], TicksPerMicro)
         IN  IF us >= MicrosPerSecond THEN <<ts[1] + 1, us - MicrosPerSecond>>
             ELSE <<ts[1], us>>

\* The f-string with the milliseconds rounded from the microseconds.
FormatTime_RoundMs(ts) ==
    LET td == TimeDelta(ts)
        total == td[1]
    IN  Fmt(total \div 3600, 2) \o <<COLON>>
        \o Fmt((total \div 60) % 60, 2) \o <<COLON>>
        \o Fmt(total % 60, 2) \o <<COMMA>>
        \o Fmt(RoundHalfEven(td[2], MicrosPerMilli), 3)

\* The f-string of lines 56-57: hh:mm:ss,mmm
FormatTime(ts) ==
    LET td == TimeDelta(ts)
        total == td[1]
    IN  Fmt(total \div 3600, 2) \o <<COLON>>
        \o Fmt((total \div 60) % 60, 2) \o <<COLON>>
        \o Fmt(total % 60, 2) \o <<COMMA>>
        \o Fmt(td[2] \div MicrosPerMilli, 3)

RECURSIVE LStrip(_)
LStrip(s) ==
    IF s = <<>> THEN s
    ELSE IF Head(s) \in Whitespace THEN LStrip(Tail(s)) ELSE s

RECURSIVE RStrip(_)
RStrip(s) ==
    IF s = <<>> THEN s
    ELSE IF s[Len(s)] \in Whitespace THEN RStrip(SubSeq(s, 1, Len(s) - 1)) ELSE s

\* str.strip()
Strip(s) == RStrip(LStrip(s))

Arrow == <<SP, HYPHEN, HYPHEN, GT, SP>>

\* One block of line 60.
Block(segment_id, chunk) ==
    Decimal(segment_id) \o <<LF>>
    \o FormatTime(chunk.timestamp[1]) \o Arrow \o FormatTime(chunk.timestamp[2]) \o <<LF>>
    \o Strip(chunk.text) \o <<LF, LF>>

RECURSIVE EncodeFrom_NoIncrement(_, _)
\* The loop without line 61.
EncodeFrom_NoIncrement(chunks, segment_id) ==
    IF chunks = <<>> THEN <<>>
    ELSE Block(segment_id, Head(chunks)) \o EncodeFrom_NoIncrement(Tail(chunks), segment_id)

RECURSIVE EncodeFrom(_, _)
\* The loop of lines 45-63 from segment_id on, over the remaining chunks.
EncodeFrom(chunks, segment_id) ==
    IF chunks = <<>> THEN <<>>
    ELSE Block(segment_id, Head(chunks)) \o EncodeFrom(Tail(chunks), segment_id + 1)

Encode(chunks) == EncodeFrom(chunks, 1)

\* The loop body without the `or 0` of lines 52-53: timedelta(seconds=None)
\* raises as well.
ChunkOk_NoOrZero(chunk) ==
    /\ chunk.text # None /\ chunk.timestamp # None
    /\ chunk.timestamp[1] # None /\ chunk.timestamp[2] # None

\* A chunk the loop body can process: chunk['text'] is a str (None has no
\* strip()) and chunk['timestamp'] unpacks into two values.
ChunkOk(chunk) == chunk.text # None /\ chunk.timestamp # None

\* What pipe(...) does: it raises, or it returns a dict with a list of chunks.
Raised == [kind |-> "raise", chunks |-> <<>>]
Returned(chunks) == [kind |-> "chunks", chunks |-> chunks]

\* generate_srt with `return ""` in the except branch.
generate_srt_Empty(output) ==
    IF output.kind # "chunks" THEN <<>>
    ELSE IF \E i \in 1..Len(output.chunks) : ~ChunkOk(output.chunks[i]) THEN <<>>
    ELSE Encode(output.chunks)

\* generate_srt after the pipe call: the SRT text, or None when anything in the
\* try block raised.
generate_srt(output) ==
    IF output.kind # "chunks" THEN None
    ELSE IF \E i \in 1..Len(output.chunks) : ~ChunkOk(output.chunks[i]) THEN None
    ELSE Encode(output.chunks)

\* str.encode('utf-8') for code points below U+0800.
Utf8Char(c) ==
    IF c < 128 THEN <<c>> ELSE <<192 + (c \div 64), 128 + (c % 64)>>

RECURSIVE Utf8(_)
Utf8(s) == IF s = <<>> THEN <<>> ELSE Utf8Char(Head(s)) \o Utf8(Tail(s))

\* ------------------------------------------------------------ the inputs
\* request.form without a 'language' field.
Absent == "<absent>"
FormLanguages == {Absent, "", "fr"}

\* An uploaded file name as os.path.splitext sees it: root and extension.
NoName == [root |-> "", ext |-> ""]
FileNames == {NoName, [root |-> "a", ext |-> ".wav"]}

\* The requests to POST /tasks or POST /transcribe whose form carries one of
\* the given languages.
Uploads(languages) ==
    {r \in [audio : BOOLEAN, filename : FileNames, language : languages] :
        ~r.audio => r.filename = NoName}

\* Chunks the transcriber may return.
Hello == <<SP, 104, 233, SP>>
Chunk1 == [timestamp |-> <<None, <<7, 2500000>>>>, text |-> Hello]
Chunk2 == [timestamp |-> <<<<3661, 0>>, <<3661, 9999996>>>>, text |-> <<111, 107>>]
BadChunk == [timestamp |-> <<<<0, 0>>, <<1, 0>>>>, text |-> None]

PipeOutputs ==
    {Raised, Returned(<<Chunk1, BadChunk>>), Returned(<<>>), Returned(<<Chunk1, Chunk2>>)}

\* The inputs of the encoder runs: lists of up to MaxChunks chunks whose start
\* times need not increase, and single chunks over a set of time values with
\* and without a part below the microsecond.
Chunk3 == [timestamp |-> <<<<5, 0>>, <<6, 0>>>>, text |-> <<LF, 97, SP, 98, 9>>]
SegChunks == {Chunk1, Chunk2, Chunk3}

SeqsUpTo(S, n) == UNION {[1..k -> S] : k \in 0..n}

Times ==
    {None, <<0, 0>>, <<7, 2500000>>, <<7, 2506000>>, <<7, 2599996>>,
     <<0, 9999996>>, <<3661, 0>>, <<3599, 9999999>>}

TimedChunk(start_seconds, end_seconds) ==
    [timestamp |-> <<start_seconds, end_seconds>>, text |-> Hello]

EncodeInputs ==
    {Raised, Returned(<<Chunk1, BadChunk>>)}
    \cup {Returned(chunks) : chunks \in SeqsUpTo(SegChunks, MaxChunks)}
    \cup {Returned(<<TimedChunk(a, b)>>) : a, b \in Times}

\* The values uuid.uuid4() can return, and the ids a client may poll: those and
\* one string that is no UUID.
Uuids == 1..MaxUuids
NotAUuid == 0
PollIds == Uuids \cup {NotAUuid}

\* The handler threads of POST /tasks and of GET /tasks/<id>.
Submitters == {1, 2}
Pollers == {1}

\* ------------------------------------------------------------- the state
VARIABLES
    tasks,      \* the dictionary `tasks`: task id -> dict
    files,      \* the paths that exist under UPLOAD_FOLDER
    uuids,      \* the values uuid.uuid4() has returned
    sub,        \* submit_task: one handler thread per submitter
    run,        \* process_audio_task: the thread a submitter started
    poll,       \* get_task_result: the handler thread of each poller
    polls,      \* GET requests made so far
    sync        \* transcribe_directly: its handler thread

vars == <<tasks, files, uuids, sub, run, poll, polls, sync>>

NoPath == [name |-> NotAUuid, ext |-> ""]
NoResponse == [code |-> 0, kind |-> "none", status |-> "", task_id |-> NotAUuid, body |-> <<>>]
Response(code, kind, status, task_id, body) ==
    [code |-> code, kind |-> kind, status |-> status, task_id |-> task_id, body |-> body]

\* The request of a handler that has received none yet.
NoRequest == [audio |-> FALSE, filename |-> NoName, language |-> Absent]

SubIdle ==
    [pc |-> "idle", request |-> NoRequest, task_id |-> NotAUuid, audio_path |-> NoPath,
     language |-> "", resp |-> NoResponse]
RunNone ==
    [pc |-> "none", task_id |-> NotAUuid, audio_path |-> NoPath, language |-> "",
     output |-> Raised, srt_result |-> None, remove |-> "none"]
PollIdle == [pc |-> "idle", task_id |-> NotAUuid, resp |-> NoResponse]
SyncIdle ==
    [pc |-> "idle", request |-> NoRequest, audio_path |-> NoPath, language |-> "",
     output |-> Raised,
     srt_result |-> None, remove |-> "none", resp |-> NoResponse]

Init ==
    /\ tasks = <<>>
    /\ files = {}
    /\ uuids = {}
    /\ sub = [s \in Submitters |-> SubIdle]
    /\ run = [s \in Submitters |-> RunNone]
    /\ poll = [p \in Pollers |-> PollIdle]
    /\ polls = 0
    /\ sync = SyncIdle

\* An id generator that may repeat itself.
uuid4_Any(used) == Uuids

\* uuid.uuid4(): a value it has not returned before.
uuid4(used) == Uuids \ used

\* request.form.get('language', 'en')
FormGet(language) == IF language = Absent THEN "en" ELSE language

\* d[k] = v on a dictionary held as a function.
SetItem(d, k, v) == [x \in DOMAIN d \cup {k} |-> IF x = k THEN v ELSE d[x]]

\* ------------------------------------------------- submit_task, POST /tasks
\* Lines 98-103: no audio part, or an empty file name.
SubmitReject(s, languages) ==
    /\ sub[s].pc = "idle"
    /\ \E r \in Uploads(languages) :
        /\ ~r.audio \/ r.filename = NoName
        /\ sub' = [sub EXCEPT ![s] = [@ EXCEPT !.pc = "done", !.request = r,
                      !.resp = Response(400, "error", "", NotAUuid, <<>>)]]
    /\ UNCHANGED <<tasks, files, uuids, run, poll, polls, sync>>

\* submit_task without the check of lines 102-103.
SubmitSave_NoNameCheck(s, languages) ==
    /\ sub[s].pc = "idle"
    /\ \E r \in Uploads(languages), task_id \in uuid4(uuids) :
        /\ r.audio
        /\ LET audio_path == [name |-> task_id, ext |-> r.filename.ext]
           IN  /\ sub' = [sub EXCEPT ![s] = [@ EXCEPT !.pc = "saved", !.request = r,
                             !.task_id = task_id, !.audio_path = audio_path,
                             !.language = FormGet(r.language)]]
               /\ files' = files \cup {audio_path}
        /\ uuids' = uuids \cup {task_id}
    /\ UNCHANGED <<tasks, run, poll, polls, sync>>

\* Lines 98-112: a valid upload gets its language, a new id and a saved file.
SubmitSave(s, languages) ==
    /\ sub[s].pc = "idle"
    /\ \E r \in Uploads(languages), task_id \in uuid4(uuids) :
        /\ r.audio /\ r.filename # NoName
        /\ LET audio_path == [name |-> task_id, ext |-> r.filename.ext]
           IN  /\ sub' = [sub EXCEPT ![s] = [@ EXCEPT !.pc = "saved", !.request = r,
                             !.task_id = task_id, !.audio_path = audio_path,
                             !.language = FormGet(r.language)]]
               /\ files' = files \cup {audio_path}
        /\ uuids' = uuids \cup {task_id}
    /\ UNCHANGED <<tasks, run, poll, polls, sync>>

\* submit_task without line 114.
SubmitInsert_Skip(s) ==
    /\ sub[s].pc = "saved"
    /\ sub' = [sub EXCEPT ![s].pc = "inserted"]
    /\ UNCHANGED <<tasks, files, uuids, run, poll, polls, sync>>

\* Line 114: tasks[task_id] = {'status': 'processing'}
SubmitInsert(s) ==
    /\ sub[s].pc = "saved"
    /\ tasks' = SetItem(tasks, sub[s].task_id, [status |-> "processing"])
    /\ sub' = [sub EXCEPT ![s].pc = "inserted"]
    /\ UNCHANGED <<files, uuids, run, poll, polls, sync>>

\* Lines 117-118: the thread is created and started.
SubmitStartThread(s) ==
    /\ sub[s].pc = "inserted"
    /\ run' = [run EXCEPT ![s] = [RunNone EXCEPT !.pc = "start",
                  !.task_id = sub[s].task_id, !.audio_path = sub[s].audio_path,
                  !.language = sub[s].language]]
    /\ sub' = [sub EXCEPT ![s].pc = "started"]
    /\ UNCHANGED <<tasks, files, uuids, poll, polls, sync>>

\* A submission that joins its thread before it answers.
SubmitReturn_Join(s) ==
    /\ sub[s].pc = "started"
    /\ run[s].pc = "done"
    /\ sub' = [sub EXCEPT ![s] = [@ EXCEPT !.pc = "done",
                  !.resp = Response(200, "task_id", "", sub[s].task_id, <<>>)]]
    /\ UNCHANGED <<tasks, files, uuids, run, poll, polls, sync>>

\* Line 120: the response carries the task id.
SubmitReturn(s) ==
    /\ sub[s].pc = "started"
    /\ sub' = [sub EXCEPT ![s] = [@ EXCEPT !.pc = "done",
                  !.resp = Response(200, "task_id", "", sub[s].task_id, <<>>)]]
    /\ UNCHANGED <<tasks, files, uuids, run, poll, polls, sync>>

\* ------------------------------------------------------ process_audio_task
\* Line 75: the call of generate_srt returns, with the text or with None; the
\* transcriber has produced one of the given outputs.
RunnerGenerateSrt(s, outputs) ==
    /\ run[s].pc = "start"
    /\ \E output \in outputs :
         run' = [run EXCEPT ![s] = [@ EXCEPT !.pc = "generated",
                    !.output = output, !.srt_result = generate_srt(output)]]
    /\ UNCHANGED <<tasks, files, uuids, sub, poll, polls, sync>>

\* Lines 76-77: tasks[task_id]['status'] = 'completed'
RunnerSetCompleted(s) ==
    /\ run[s].pc = "generated"
    /\ run[s].srt_result # None
    /\ tasks' = [tasks EXCEPT ![run[s].task_id] =
                    SetItem(@, "status", "completed")]
    /\ run' = [run EXCEPT ![s].pc = "status_set"]
    /\ UNCHANGED <<files, uuids, sub, poll, polls, sync>>

\* process_audio_task without line 78.
RunnerSetResult_Skip(s) ==
    /\ run[s].pc = "status_set"
    /\ run' = [run EXCEPT ![s].pc = "written"]
    /\ UNCHANGED <<tasks, files, uuids, sub, poll, polls, sync>>

\* Line 78: tasks[task_id]['result'] = srt_result
RunnerSetResult(s) ==
    /\ run[s].pc = "status_set"
    /\ tasks' = [tasks EXCEPT ![run[s].task_id] =
                    SetItem(@, "result", run[s].srt_result)]
    /\ run' = [run EXCEPT ![s].pc = "written"]
    /\ UNCHANGED <<files, uuids, sub, poll, polls, sync>>

\* A failure that marks every job of the table as failed.
RunnerSetFailed_All(s) ==
    /\ run[s].pc = "generated"
    /\ run[s].srt_result = None
    /\ tasks' = [id \in DOMAIN tasks |-> SetItem(tasks[id], "status", "failed")]
    /\ run' = [run EXCEPT ![s].pc = "written"]
    /\ UNCHANGED <<files, uuids, sub, poll, polls, sync>>

\* Lines 80-81: tasks[task_id]['status'] = 'failed'
RunnerSetFailed(s) ==
    /\ run[s].pc = "generated"
    /\ run[s].srt_result = None
    /\ tasks' = [tasks EXCEPT ![run[s].task_id] =
                    SetItem(@, "status", "failed")]
    /\ run' = [run EXCEPT ![s].pc = "written"]
    /\ UNCHANGED <<files, uuids, sub, poll, polls, sync>>

\* The clean-up placed before the status is written.
RunnerRemove_Early(s) ==
    /\ run[s].pc \in {"generated", "written"}
    /\ \/ /\ run[s].audio_path \in files
          /\ files' = files \ {run[s].audio_path}
          /\ run' = [run EXCEPT ![s] = [@ EXCEPT !.pc = "done", !.remove = "removed"]]
       \/ /\ files' = files
          /\ run' = [run EXCEPT ![s] = [@ EXCEPT !.pc = "done", !.remove = "oserror"]]
    /\ UNCHANGED <<tasks, uuids, sub, poll, polls, sync>>

\* Lines 84-87: os.remove(audio_path) removes the file, or raises OSError,
\* which is printed; the thread ends either way.
\* A clean-up whose except branch marks the job as failed.
RunnerRemove_MarksFailed(s) ==
    /\ run[s].pc = "written"
    /\ \/ /\ run[s].audio_path \in files
          /\ files' = files \ {run[s].audio_path}
          /\ run' = [run EXCEPT ![s] = [@ EXCEPT !.pc = "done", !.remove = "removed"]]
          /\ tasks' = tasks
       \/ /\ files' = files
          /\ run' = [run EXCEPT ![s] = [@ EXCEPT !.pc = "done", !.remove = "oserror"]]
          /\ tasks' = [tasks EXCEPT ![run[s].task_id] = [status |-> "failed"]]
    /\ UNCHANGED <<uuids, sub, poll, polls, sync>>

RunnerRemove(s) ==
    /\ run[s].pc = "written"
    /\ \/ /\ run[s].audio_path \in files
          /\ files' = files \ {run[s].audio_path}
          /\ run' = [run EXCEPT ![s] = [@ EXCEPT !.pc = "done", !.remove = "removed"]]
       \/ /\ files' = files
          /\ run' = [run EXCEPT ![s] = [@ EXCEPT !.pc = "done", !.remove = "oserror"]]
    /\ UNCHANGED <<tasks, uuids, sub, poll, polls, sync>>

\* ---------------------------------------- get_task_result, GET /tasks/<id>
\* The lookup written as tasks.setdefault(task_id, {'status': 'processing'}).
PollLookup_Setdefault(p) ==
    /\ poll[p].pc \in {"idle", "done"}
    /\ polls < MaxPolls
    /\ polls' = polls + 1
    /\ \E task_id \in PollIds :
         /\ tasks' = IF task_id \in DOMAIN tasks THEN tasks
                     ELSE SetItem(tasks, task_id, [status |-> "processing"])
         /\ poll' = [poll EXCEPT ![p] = [pc |-> "check_completed",
                         task_id |-> task_id, resp |-> NoResponse]]
    /\ UNCHANGED <<files, uuids, sub, run, sync>>

\* Lines 128-130: task = tasks.get(task_id); a missing (or empty) task is a 404.
PollLookup(p) ==
    /\ poll[p].pc \in {"idle", "done"}
    /\ polls < MaxPolls
    /\ polls' = polls + 1
    /\ \E task_id \in PollIds :
         IF task_id \notin DOMAIN tasks \/ DOMAIN tasks[task_id] = {}
         THEN poll' = [poll EXCEPT ![p] = [pc |-> "done", task_id |-> task_id,
                          resp |-> Response(404, "not_found", "", task_id, <<>>)]]
         ELSE poll' = [poll EXCEPT ![p] = [pc |-> "check_completed",
                          task_id |-> task_id, resp |-> NoResponse]]
    /\ UNCHANGED <<tasks, files, uuids, sub, run, sync>>

\* Line 132: if task['status'] == 'completed'
PollCheckCompleted(p) ==
    /\ poll[p].pc = "check_completed"
    /\ poll' = [poll EXCEPT ![p].pc =
                   IF tasks[poll[p].task_id].status = "completed"
                   THEN "send_file" ELSE "check_failed"]
    /\ UNCHANGED <<tasks, files, uuids, sub, run, polls, sync>>

\* A handler that takes the result out of the table: task.pop('result').
PollSendFile_Pop(p) ==
    /\ poll[p].pc = "send_file"
    /\ "result" \in DOMAIN tasks[poll[p].task_id]
    /\ poll' = [poll EXCEPT ![p] = [@ EXCEPT !.pc = "done", !.resp =
                   Response(200, "file", "", poll[p].task_id,
                            Utf8(tasks[poll[p].task_id].result))]]
    /\ tasks' = [tasks EXCEPT ![poll[p].task_id] = [status |-> @.status]]
    /\ UNCHANGED <<files, uuids, sub, run, polls, sync>>

\* Lines 133-140: task['result'] is read, encoded and sent as an attachment; a
\* dictionary without the key raises KeyError, which Flask answers with a 500.
PollSendFile(p) ==
    /\ poll[p].pc = "send_file"
    /\ LET task == tasks[poll[p].task_id]
       IN  poll' = [poll EXCEPT ![p] = [@ EXCEPT !.pc = "done", !.resp =
                       IF "result" \in DOMAIN task
                       THEN Response(200, "file", "", poll[p].task_id, Utf8(task.result))
                       ELSE Response(500, "internal_error", "", poll[p].task_id, <<>>)]]
    /\ UNCHANGED <<tasks, files, uuids, sub, run, polls, sync>>

\* Lines 141-142: elif task['status'] == 'failed'
PollCheckFailed(p) ==
    /\ poll[p].pc = "check_failed"
    /\ poll' = [poll EXCEPT ![p] =
                   IF tasks[poll[p].task_id].status = "failed"
                   THEN [@ EXCEPT !.pc = "done", !.resp =
                            Response(500, "status", "failed", poll[p].task_id, <<>>)]
                   ELSE [@ EXCEPT !.pc = "return_status"]]
    /\ UNCHANGED <<tasks, files, uuids, sub, run, polls, sync>>

\* Lines 143-144: jsonify({"status": task['status']})
PollReturnStatus(p) ==
    /\ poll[p].pc = "return_status"
    /\ poll' = [poll EXCEPT ![p] = [@ EXCEPT !.pc = "done", !.resp =
                   Response(200, "status", tasks[poll[p].task_id].status,
                            poll[p].task_id, <<>>)]]
    /\ UNCHANGED <<tasks, files, uuids, sub, run, polls, sync>>

\* ------------------------------------- transcribe_directly, POST /transcribe
\* Lines 152-157
SyncReject ==
    /\ sync.pc = "idle"
    /\ \E r \in Uploads(FormLanguages) :
        /\ ~r.audio \/ r.filename = NoName
        /\ sync' = [sync EXCEPT !.pc = "done", !.request = r,
                       !.resp = Response(400, "error", "", NotAUuid, <<>>)]
    /\ UNCHANGED <<tasks, files, uuids, sub, run, poll, polls>>

\* Lines 152-164: the file is saved under a new uuid, without extension.
SyncSave ==
    /\ sync.pc = "idle"
    /\ \E r \in Uploads(FormLanguages), temp_filename \in uuid4(uuids) :
        /\ r.audio /\ r.filename # NoName
        /\ LET audio_path == [name |-> temp_filename, ext |-> ""]
           IN  /\ sync' = [sync EXCEPT !.pc = "saved", !.request = r,
                              !.audio_path = audio_path,
                              !.language = FormGet(r.language)]
               /\ files' = files \cup {audio_path}
        /\ uuids' = uuids \cup {temp_filename}
    /\ UNCHANGED <<tasks, sub, run, poll, polls>>

\* Line 167
SyncGenerateSrt ==
    /\ sync.pc = "saved"
    /\ \E output \in PipeOutputs :
         sync' = [sync EXCEPT !.pc = "generated", !.output = output,
                     !.srt_result = generate_srt(output)]
    /\ UNCHANGED <<tasks, files, uuids, sub, run, poll, polls>>

\* Line 169: os.remove(audio_path), outside any try: an OSError leaves the
\* handler and Flask answers with a 500.
SyncRemove ==
    /\ sync.pc = "generated"
    /\ \/ /\ sync.audio_path \in files
          /\ files' = files \ {sync.audio_path}
          /\ sync' = [sync EXCEPT !.pc = "removed", !.remove = "removed"]
       \/ /\ files' = files
          /\ sync' = [sync EXCEPT !.pc = "done", !.remove = "oserror",
                         !.resp = Response(500, "internal_error", "", NotAUuid, <<>>)]
    /\ UNCHANGED <<tasks, uuids, sub, run, poll, polls>>

\* Lines 171-174
SyncReturn ==
    /\ sync.pc = "removed"
    /\ sync' = [sync EXCEPT !.pc = "done", !.resp =
                   IF sync.srt_result # None
                   THEN Response(200, "text", "", NotAUuid, Utf8(sync.srt_result))
                   ELSE Response(500, "transcribe_failed", "", NotAUuid, <<>>)]
    /\ UNCHANGED <<tasks, files, uuids, sub, run, poll, polls>>

\* ------------------------------------------------------- specifications
Submit(s, languages) ==
    \/ SubmitReject(s, languages) \/ SubmitSave(s, languages) \/ SubmitInsert(s)
    \/ SubmitStartThread(s) \/ SubmitReturn(s)

\* Lines 76-87: what the thread does once generate_srt has returned.
RunnerFinish(s) ==
    \/ RunnerSetCompleted(s) \/ RunnerSetResult(s)
    \/ RunnerSetFailed(s) \/ RunnerRemove(s)

Runner(s, outputs) == RunnerGenerateSrt(s, outputs) \/ RunnerFinish(s)

Poll(p) ==
    \/ PollLookup(p) \/ PollCheckCompleted(p) \/ PollSendFile(p)
    \/ PollCheckFailed(p) \/ PollReturnStatus(p)

Sync == SyncReject \/ SyncSave \/ SyncGenerateSrt \/ SyncRemove \/ SyncReturn

\* Two concurrent asynchronous submissions without a language field, and a
\* polling client.
Next ==
    \/ \E s \in Submitters : Submit(s, {Absent})
    \/ \E s \in Submitters : Runner(s, PipeOutputs)
    \/ \E p \in Pollers : Poll(p)

Spec == Init /\ [][Next]_vars

\* A synchronous transcription next to one asynchronous job and the poller,
\* with every kind of language field.
NextSync ==
    \/ Sync
    \/ Submit(1, FormLanguages) \/ Runner(1, PipeOutputs)
    \/ \E p \in Pollers : Poll(p)

SpecSync == Init /\ [][NextSync]_vars

\* One asynchronous job whose transcriber returns any of the encoder inputs.
NextEncode == Submit(1, {Absent}) \/ Runner(1, EncodeInputs)

SpecEncode == Init /\ [][NextEncode]_vars

\* The scheduler runs every started thread: a runner that has its transcript
\* (or its failure) takes its remaining steps.  The transcriber call itself may
\* last for ever.
RunnerFairness == \A s \in Submitters : WF_vars(RunnerFinish(s))

FairSpec == Spec /\ RunnerFairness

\* ---------------------------------------------------------------- claims

\* Lines 114-120: what submit_task does once the upload is saved.
SubmitAnswer(s) == SubmitInsert(s) \/ SubmitStartThread(s) \/ SubmitReturn(s)

\* The request handler of an accepted upload runs to its return statement;
\* nothing is assumed about the runner threads or the transcriber.
SubmitFairness == \A s \in Submitters : WF_vars(SubmitAnswer(s))

FairSubmitSpec == Spec /\ SubmitFairness

HasResult(task_id) == task_id \in DOMAIN tasks /\ "result" \in DOMAIN tasks[task_id]
StatusIs(task_id, status) == task_id \in DOMAIN tasks /\ tasks[task_id].status = status
Started(s) == run[s].pc # "none"
Terminal(s) == run[s].pc \in {"written", "done"}
\* The transcriber's output is a list of chunks with a text and a timestamp pair.
WellFormed(output) ==
    output.kind = "chunks" /\ \A i \in 1..Len(output.chunks) : ChunkOk(output.chunks[i])
\* The transcriber call of s's runner has returned, well or badly.
Succeeded(s) == run[s].pc \notin {"none", "start"} /\ WellFormed(run[s].output)
FailedRun(s) == run[s].pc \notin {"none", "start"} /\ ~WellFormed(run[s].output)
\* The submission of s has answered with its task id.
Returned200(s) == sub[s].pc = "done" /\ sub[s].resp.kind = "task_id"
\* Poller p's step produced a response.
Responds(p) == poll'[p] # poll[p] /\ poll'[p].pc = "done"

\* C1: in every reachable state each job record holds a result if and only if
\* its status is completed.
C1_ResultIffCompleted ==
    \A id \in DOMAIN tasks : HasResult(id) <=> tasks[id].status = "completed"

\* C2: every response to a poll is a 404 for an absent job, the status
\* 'processing' without text, the completed job's whole encoded text, or the
\* failure answer without text; never an error, never 'completed' without text.
C2_PollNeverTorn ==
    \A p \in Pollers :
        poll[p].pc = "done" =>
            LET r == poll[p].resp
                id == poll[p].task_id
            IN  \/ r = Response(404, "not_found", "", id, <<>>)
                \/ r = Response(200, "status", "processing", id, <<>>)
                \/ r = Response(500, "status", "failed", id, <<>>)
                \/ /\ r.kind = "file"
                   /\ HasResult(id)
                   /\ r = Response(200, "file", "", id, Utf8(tasks[id].result))

\* C3: a job whose transcriber call returned well-formed chunks S eventually is
\* completed with result Encode(S), and from then on a poll that reads its
\* status answers with exactly that text.  (Succeeded(s) never turns false
\* again, first conjunct; so the second conjunct says that Succeeded(s) leads
\* to the completed record, for every s.)
C3_SuccessEventuallyCompleted ==
    /\ [][\A s \in Submitters : Succeeded(s) => Succeeded(s)']_vars
    /\ []<>(\A s \in Submitters :
             Succeeded(s) =>
                /\ StatusIs(run[s].task_id, "completed")
                /\ HasResult(run[s].task_id)
                /\ tasks[run[s].task_id].result = Encode(run[s].output.chunks))
    /\ [][\A p \in Pollers, s \in Submitters :
            (Terminal(s) /\ Succeeded(s) /\ poll[p].task_id = run[s].task_id
             /\ poll[p].pc \in {"check_completed", "send_file"} /\ poll'[p] # poll[p])
            => \/ poll'[p].pc = "send_file"
               \/ /\ poll'[p].pc = "done"
                  /\ poll'[p].resp = Response(200, "file", "", run[s].task_id,
                                              Utf8(Encode(run[s].output.chunks)))]_vars

C3_Witness ==
    \E p \in Pollers, s \in Submitters :
        /\ Terminal(s) /\ Succeeded(s)
        /\ run[s].output = Returned(<<Chunk1, Chunk2>>)
        /\ poll[p].pc = "done"
        /\ poll[p].resp = Response(200, "file", "", run[s].task_id,
                                   Utf8(Encode(<<Chunk1, Chunk2>>)))

\* C4: a job whose transcriber call raised or returned malformed output
\* eventually is failed, and from the failure on neither its record nor any
\* response to a poll of it carries a result.  (FailedRun(s) never turns false
\* again, first conjunct; so the second conjunct says that FailedRun(s) leads
\* to the failed record, for every s.)
C4_FailureEventuallyFailed ==
    /\ [][\A s \in Submitters : FailedRun(s) => FailedRun(s)']_vars
    /\ []<>(\A s \in Submitters : FailedRun(s) => StatusIs(run[s].task_id, "failed"))
    /\ [](\A s \in Submitters :
            FailedRun(s) =>
                /\ ~HasResult(run[s].task_id)
                /\ \A p \in Pollers :
                     poll[p].task_id = run[s].task_id =>
                        poll[p].resp.kind # "file" /\ poll[p].resp.body = <<>>)

C4_Witness ==
    \E p \in Pollers, s \in Submitters :
        /\ run[s].pc = "done" /\ run[s].output = Returned(<<Chunk1, BadChunk>>)
        /\ tasks[run[s].task_id] = [status |-> "failed"]
        /\ poll[p].pc = "done"
        /\ poll[p].resp = Response(500, "status", "failed", run[s].task_id, <<>>)

\* C5: the record is inserted before the runner thread exists, and every
\* response to a poll of a job, given between the return of its submission and
\* the return of its transcriber call, is the status 'processing'.
C5_PendingUntilTranscribed ==
    /\ [](\A s \in Submitters : Started(s) => run[s].task_id \in DOMAIN tasks)
    /\ [](\A s \in Submitters :
            (Returned200(s) /\ run[s].pc = "start") =>
                tasks[sub[s].task_id] = [status |-> "processing"])
    /\ [][\A p \in Pollers, s \in Submitters :
            (Returned200(s) /\ run[s].pc = "start" /\ Responds(p)
             /\ poll'[p].task_id = sub[s].task_id)
            => poll'[p].resp = Response(200, "status", "processing", sub[s].task_id, <<>>)]_vars

C5_Witness ==
    \E p \in Pollers, s \in Submitters :
        /\ Returned200(s) /\ run[s].pc = "start"
        /\ poll[p].pc = "done"
        /\ poll[p].resp = Response(200, "status", "processing", sub[s].task_id, <<>>)

\* C6: a record is never removed, and its status changes only from
\* 'processing' to 'completed' or 'failed', in a step of the job's own runner.
C6_StatusOneWay ==
    [][\A id \in DOMAIN tasks :
          /\ id \in DOMAIN tasks'
          /\ tasks'[id].status # tasks[id].status =>
                /\ tasks[id].status = "processing"
                /\ tasks'[id].status \in {"completed", "failed"}
                /\ \E s \in Submitters :
                      /\ run[s].task_id = id
                      /\ run[s].pc = "generated" /\ run'[s].pc \in {"status_set", "written"}
                      /\ \A t \in Submitters \ {s} : run'[t] = run[t]]_vars

C6_Witness ==
    \E s, t \in Submitters :
        /\ run[s].pc = "done" /\ StatusIs(run[s].task_id, "completed")
        /\ run[t].pc = "done" /\ StatusIs(run[t].task_id, "failed")

\* C7: two submissions never get the same id, a runner's step changes no record
\* but its own, and a finished job's record is the one its own transcriber
\* output determines.
C7_JobsIsolated ==
    /\ [](\A s, t \in Submitters :
            (s # t /\ sub[s].task_id # NotAUuid /\ sub[t].task_id # NotAUuid)
                => sub[s].task_id # sub[t].task_id)
    /\ [](\A s \in Submitters :
            Terminal(s) =>
                tasks[run[s].task_id] =
                    IF WellFormed(run[s].output)
                    THEN [status |-> "completed", result |-> Encode(run[s].output.chunks)]
                    ELSE [status |-> "failed"])
    /\ [][\A s \in Submitters :
            run'[s] # run[s] =>
                \A id \in DOMAIN tasks \ {run[s].task_id} :
                    id \in DOMAIN tasks' /\ tasks'[id] = tasks[id]]_vars

C7_Witness ==
    \E s, t \in Submitters :
        /\ s # t
        /\ run[s].pc = "done" /\ run[s].output = Raised
        /\ tasks[run[s].task_id] = [status |-> "failed"]
        /\ run[t].pc = "done" /\ run[t].output = Returned(<<Chunk1, Chunk2>>)
        /\ tasks[run[t].task_id] =
              [status |-> "completed", result |-> Encode(<<Chunk1, Chunk2>>)]

\* C8 as stated: a runner that has ended has deleted its source file, and the
\* file is gone only once the status is terminal.
C8_DeletedExactlyOnce ==
    \A s \in Submitters :
        Started(s) =>
            /\ run[s].audio_path \notin files => Terminal(s)
            /\ run[s].pc = "done" => run[s].audio_path \notin files

\* C8, amended: the runner calls os.remove on its source file exactly once, as
\* its last step, when the status is terminal (and a completed job has its
\* result), after either outcome; the file exists until that call and is gone
\* after it exactly when the call did not raise.
C8_RemoveAttemptedOnce ==
    /\ [](\A s \in Submitters :
            Started(s) =>
                /\ run[s].pc # "done" =>
                      run[s].remove = "none" /\ run[s].audio_path \in files
                /\ run[s].pc = "done" =>
                      /\ run[s].remove \in {"removed", "oserror"}
                      /\ tasks[run[s].task_id].status \in {"completed", "failed"}
                      /\ run[s].remove = "removed" <=> run[s].audio_path \notin files)
    /\ [][\A s \in Submitters :
            run'[s].remove # run[s].remove =>
                /\ run[s].remove = "none" /\ run[s].pc = "written"
                /\ tasks[run[s].task_id].status \in {"completed", "failed"}
                /\ tasks[run[s].task_id].status = "completed" => HasResult(run[s].task_id)
                /\ tasks' = tasks]_vars

C8_Witness ==
    \E s, t \in Submitters :
        /\ run[s].pc = "done" /\ run[s].remove = "removed"
        /\ StatusIs(run[s].task_id, "completed") /\ run[s].audio_path \notin files
        /\ run[t].pc = "done" /\ run[t].remove = "removed"
        /\ StatusIs(run[t].task_id, "failed") /\ run[t].audio_path \notin files

\* C9: a poll of an id that uuid4 has given to no submission answers 404, it
\* never answers with a status or an error, and no step of a poll changes the
\* table.
C9_UnknownIdNotFound ==
    [][\A p \in Pollers :
          poll'[p] # poll[p] =>
              /\ tasks' = tasks
              /\ poll'[p].task_id \notin uuids =>
                    /\ poll'[p].pc = "done"
                    /\ poll'[p].resp =
                          Response(404, "not_found", "", poll'[p].task_id, <<>>)]_vars

C9_Witness ==
    \E p \in Pollers, s, t \in Submitters :
        /\ poll[p].pc = "done" /\ poll[p].task_id \notin uuids
        /\ poll[p].resp = Response(404, "not_found", "", poll[p].task_id, <<>>)
        /\ Terminal(s) /\ StatusIs(run[s].task_id, "completed")
        /\ run[t].pc = "start"

\* C10: in transcribe_directly a failure of os.remove does not change the
\* answer: the text when the transcription succeeded, the transcription
\* failure when it did not.
C10_CleanupFailureHidden ==
    (sync.pc = "done" /\ sync.remove = "oserror") =>
        sync.resp = IF sync.srt_result # None
                    THEN Response(200, "text", "", NotAUuid, Utf8(sync.srt_result))
                    ELSE Response(500, "transcribe_failed", "", NotAUuid, <<>>)

\* An upload without audio part or with an empty file name.
Invalid(r) == ~r.audio \/ r.filename = NoName

\* C11: a submission without audio or with an empty file name is answered with
\* the 400 error and nothing else: no id, no file, no record, no thread.
C11_InvalidSubmissionRejected ==
    /\ [](\A s \in Submitters :
            (sub[s].pc # "idle" /\ Invalid(sub[s].request)) =>
                /\ sub[s].pc = "done"
                /\ sub[s].resp = Response(400, "error", "", NotAUuid, <<>>)
                /\ sub[s].task_id = NotAUuid
                /\ sub[s].audio_path = NoPath
                /\ run[s].pc = "none")
    /\ [][\A s \in Submitters :
            (sub[s].pc = "idle" /\ sub'[s].pc # "idle" /\ Invalid(sub'[s].request)) =>
                /\ tasks' = tasks /\ files' = files /\ uuids' = uuids
                /\ run' = run]_vars

C11_Witness ==
    \E s, t \in Submitters :
        /\ sub[s].pc = "done"
        /\ sub[s].request.audio /\ sub[s].request.filename = NoName
        /\ sub[s].resp.code = 400
        /\ Returned200(t) /\ run[t].pc = "start"
        /\ DOMAIN tasks = {sub[t].task_id}
        /\ files = {sub[t].audio_path}

\* The handler of s is between the saved upload and its answer.
Answering(s) == sub[s].pc \in {"saved", "inserted", "started"}

\* C12: an accepted submission answers with its job id whatever the
\* transcriber does: the handler always reaches its return, also in the runs
\* where the transcriber call never returns, and the answer is the id.
C12_SubmitReturnsAtOnce ==
    /\ []<>(\A s \in Submitters : ~Answering(s))
    /\ [][\A s \in Submitters :
            (Answering(s) /\ ~Answering(s)') =>
                sub'[s].resp = Response(200, "task_id", "", sub[s].task_id, <<>>)]_vars

C12_Witness ==
    \E s \in Submitters :
        /\ Returned200(s)
        /\ sub[s].resp.task_id = run[s].task_id
        /\ run[s].pc = "start"
        /\ StatusIs(run[s].task_id, "processing")

RECURSIVE Blocks(_, _)
\* Blocks 1..n of a list of chunks: block i is the number i, the two time
\* stamps of chunk i and its stripped text.
Blocks(chunks, n) ==
    IF n = 0 THEN <<>> ELSE Blocks(chunks, n - 1) \o Block(n, chunks[n])

\* The runner of s holds the transcript of a well-formed, non-empty list.
Encoded(s) == Succeeded(s) /\ Len(run[s].output.chunks) > 0

\* C13: a list of n >= 1 chunks is encoded as n blocks numbered 1..n, block i
\* from chunk i, in the order of the list, whatever the start times are; this
\* text becomes the job's result.
C13_BlocksInInputOrder ==
    \A s \in Submitters :
        Encoded(s) =>
            /\ run[s].srt_result =
                   Blocks(run[s].output.chunks, Len(run[s].output.chunks))
            /\ Terminal(s) =>
                   /\ HasResult(run[s].task_id)
                   /\ tasks[run[s].task_id].result = run[s].srt_result

C13_Witness ==
    \E s \in Submitters :
        /\ Encoded(s) /\ Terminal(s)
        /\ run[s].output.chunks = <<Chunk2, Chunk3>>
        /\ tasks[run[s].task_id].result = Block(1, Chunk2) \o Block(2, Chunk3)

\* n < 100 as two digits, n < 1000 as three.
TwoDigits(n) == <<DIGIT0 + (n \div 10), DIGIT0 + (n % 10)>>
ThreeDigits(n) == <<DIGIT0 + (n \div 100), DIGIT0 + ((n \div 10) % 10), DIGIT0 + (n % 10)>>

\* hh:mm:ss,mmm from whole seconds and milliseconds.
Stamp(seconds, millis) ==
    TwoDigits(seconds \div 3600) \o <<COLON>> \o TwoDigits((seconds \div 60) % 60)
    \o <<COLON>> \o TwoDigits(seconds % 60) \o <<COMMA>> \o ThreeDigits(millis)

\* The fields of t itself, the milliseconds cut off.
TruncatedStamp(ts) == Stamp(ts[1], ts[2] \div (TicksPerMicro * MicrosPerMilli))

\* The fields of t rounded to the nearest microsecond (t is not half-way
\* between two), the milliseconds cut off from the microseconds.
NearestMicros(ts) ==
    LET us == (ts[2] + (TicksPerMicro \div 2)) \div TicksPerMicro
    IN  IF us = MicrosPerSecond THEN <<ts[1] + 1, 0>> ELSE <<ts[1], us>>
RoundedStamp(ts) ==
    LET r == NearestMicros(ts) IN Stamp(r[1], r[2] \div MicrosPerMilli)

\* The start (i = 1) and end (i = 2) time stamp of the first block of a text.
StampAt(text, i) == IF i = 1 THEN SubSeq(text, 3, 14) ELSE SubSeq(text, 20, 31)

\* The runner of s holds the transcript of one chunk whose time i is a number
\* not half-way between two microseconds.
EncodedTime(s, i) ==
    /\ Succeeded(s) /\ Len(run[s].output.chunks) = 1
    /\ run[s].output.chunks[1].timestamp[i] # None
    /\ run[s].output.chunks[1].timestamp[i][2] % TicksPerMicro # TicksPerMicro \div 2

\* C14 as stated: the fields are those of t, the milliseconds by truncation.
C14_TruncatedMillis ==
    \A s \in Submitters : \A i \in 1..2 :
        EncodedTime(s, i) =>
            StampAt(run[s].srt_result, i) =
                TruncatedStamp(run[s].output.chunks[1].timestamp[i])

\* C14, amended: t is first rounded to the nearest microsecond; hours, minutes
\* and seconds are those of the rounded value, zero-padded to two digits, and
\* the milliseconds are its microseconds cut off, padded to three digits.
C14_RoundedMicrosTruncatedMillis ==
    \A s \in Submitters : \A i \in 1..2 :
        EncodedTime(s, i) =>
            /\ StampAt(run[s].srt_result, i) =
                   RoundedStamp(run[s].output.chunks[1].timestamp[i])
            /\ Terminal(s) =>
                   /\ HasResult(run[s].task_id)
                   /\ StampAt(tasks[run[s].task_id].result, i) =
                          RoundedStamp(run[s].output.chunks[1].timestamp[i])

\* 0.9999996 s is written 00:00:01,000 and 7.2506 s is written 00:00:07,250.
C14_Witness ==
    \E s \in Submitters :
        /\ EncodedTime(s, 1) /\ EncodedTime(s, 2) /\ Terminal(s)
        /\ run[s].output.chunks[1].timestamp = <<<<0, 9999996>>, <<7, 2506000>>>>
        /\ StampAt(tasks[run[s].task_id].result, 1) =
               <<48, 48, 58, 48, 48, 58, 48, 49, 44, 48, 48, 48>>
        /\ StampAt(tasks[run[s].task_id].result, 2) =
               <<48, 48, 58, 48, 48, 58, 48, 55, 44, 50, 53, 48>>

ZeroStamp == <<48, 48, 58, 48, 48, 58, 48, 48, 44, 48, 48, 48>>

\* A chunk with 0 in the place of a None start or end.
ZeroFilled(chunk) ==
    [chunk EXCEPT !.timestamp =
        <<IF @[1] = None THEN <<0, 0>> ELSE @[1], IF @[2] = None THEN <<0, 0>> ELSE @[2]>>]

\* The transcriber of s's runner returned chunks with texts, one of them with
\* a None start or end.
NullTimed(s) ==
    /\ run[s].pc \notin {"none", "start"}
    /\ run[s].output.kind = "chunks"
    /\ \A i \in 1..Len(run[s].output.chunks) : run[s].output.chunks[i].text # None
    /\ \E i \in 1..Len(run[s].output.chunks), j \in 1..2 :
           run[s].output.chunks[i].timestamp[j] = None

\* C19: a None start or end is encoded as 0, written 00:00:00,000; the
\* encoding does not fail, every chunk is encoded as with 0 in the place of
\* None, and the job is completed with that text.
C19_NullTimeIsZero ==
    \A s \in Submitters :
        NullTimed(s) =>
            LET chunks == run[s].output.chunks
                filled == [i \in 1..Len(chunks) |-> ZeroFilled(chunks[i])]
            IN  /\ run[s].srt_result # None
                /\ run[s].srt_result = Blocks(filled, Len(filled))
                /\ \A j \in 1..2 :
                       chunks[1].timestamp[j] = None =>
                           StampAt(run[s].srt_result, j) = ZeroStamp
                /\ run[s].pc = "status_set" => StatusIs(run[s].task_id, "completed")
                /\ Terminal(s) =>
                       /\ StatusIs(run[s].task_id, "completed")
                       /\ HasResult(run[s].task_id)
                       /\ tasks[run[s].task_id].result = run[s].srt_result

C19_Witness ==
    \E s \in Submitters :
        /\ NullTimed(s) /\ Terminal(s)
        /\ run[s].output.chunks = <<Chunk1, Chunk2>>
        /\ StatusIs(run[s].task_id, "completed")
        /\ StampAt(tasks[run[s].task_id].result, 1) = ZeroStamp
        /\ tasks[run[s].task_id].result =
               Block(1, TimedChunk(<<0, 0>>, <<7, 2500000>>)) \o Block(2, Chunk2)

\* The language the transcriber is to be called with for a form value.
Hint(language) == IF language \in {Absent, ""} THEN "en" ELSE language

\* C15: the transcriber is called with the default language when the form has
\* no language or an empty one, and with the given language otherwise, for
\* the thread of a submission and for the synchronous handler alike.
C15_DefaultLanguageWhenEmpty ==
    /\ \A s \in Submitters :
           Started(s) => run[s].language = Hint(sub[s].request.language)
    /\ sync.pc \in {"saved", "generated", "removed"} =>
           sync.language = Hint(sync.request.language)

\* The synchronous handler has answered an upload it accepted.
SyncAnswered == sync.pc = "done" /\ ~Invalid(sync.request)

\* C16: transcribe_directly never touches the job table; it answers with the
\* encoded text exactly when the transcriber succeeded and with the error
\* exactly when it failed, and its temporary file is gone when it answers.
C16_SyncNoBookkeeping ==
    /\ [][sync' # sync => tasks' = tasks]_vars
    /\ [](SyncAnswered =>
            /\ WellFormed(sync.output) =>
                   sync.resp = Response(200, "text", "", NotAUuid,
                                        Utf8(Encode(sync.output.chunks)))
            /\ ~WellFormed(sync.output) =>
                   sync.resp = Response(500, "transcribe_failed", "", NotAUuid, <<>>)
            /\ sync.audio_path \notin files)

\* The transcriber of s's runner returned an empty list of chunks.
EmptyRun(s) == run[s].pc \notin {"none", "start"} /\ run[s].output = Returned(<<>>)

\* C17: an empty list of chunks is encoded as the empty text and is no error:
\* the job is never failed and ends completed with the empty result, a poll
\* that sends its file sends an empty one and none reports a failure, and the
\* synchronous handler answers 200 with the empty text.
C17_EmptyIsSuccess ==
    /\ \A s \in Submitters :
           EmptyRun(s) =>
               /\ run[s].srt_result = <<>>
               /\ ~StatusIs(run[s].task_id, "failed")
               /\ Terminal(s) =>
                      tasks[run[s].task_id] = [status |-> "completed", result |-> <<>>]
               /\ \A p \in Pollers :
                      (poll[p].pc = "done" /\ poll[p].task_id = run[s].task_id) =>
                          /\ poll[p].resp # Response(500, "status", "failed",
                                                     poll[p].task_id, <<>>)
                          /\ poll[p].resp.kind = "file" =>
                                 poll[p].resp = Response(200, "file", "",
                                                         poll[p].task_id, <<>>)
    /\ (sync.pc = "done" /\ sync.output = Returned(<<>>) /\ ~Invalid(sync.request)) =>
           sync.resp = Response(200, "text", "", NotAUuid, <<>>)

\* The step in which os.remove raises in the runner of s.
RemoveFails(s) == run[s].remove = "none" /\ run'[s].remove = "oserror"

\* C18: when os.remove raises in a runner, the status was already terminal,
\* the step changes no record (completed stays completed with its result,
\* failed stays failed), no file and no other thread, and the runner ends; the
\* record of an ended runner is that of its transcriber outcome.
C18_RemoveFailureKeepsRecord ==
    /\ [][\A s \in Submitters :
            RemoveFails(s) =>
                /\ run[s].pc = "written"
                /\ tasks[run[s].task_id].status \in {"completed", "failed"}
                /\ tasks' = tasks /\ files' = files
                /\ run'[s].pc = "done"
                /\ \A t \in Submitters \ {s} : run'[t] = run[t]
                /\ sub' = sub /\ poll' = poll]_vars
    /\ [](\A s \in Submitters :
            run[s].remove = "oserror" =>
                /\ run[s].pc = "done"
                /\ tasks[run[s].task_id] =
                       IF run[s].srt_result # None
                       THEN [status |-> "completed", result |-> run[s].srt_result]
                       ELSE [status |-> "failed"])

C18_Witness ==
    \E s, t \in Submitters :
        /\ s # t
        /\ run[s].remove = "oserror" /\ run[s].output = Returned(<<Chunk1, Chunk2>>)
        /\ run[s].audio_path \in files
        /\ tasks[run[s].task_id] =
               [status |-> "completed", result |-> Encode(<<Chunk1, Chunk2>>)]
        /\ run[t].remove = "oserror" /\ run[t].output = Raised
        /\ tasks[run[t].task_id] = [status |-> "failed"]

\* The answer "completed" with the text of the record of task_id.
Completed(task_id) ==
    Response(200, "file", "", task_id, Utf8(tasks[task_id].result))

\* C20: a record is never removed and never changes once it has its result;
\* no step of a poll changes the table; a poll answers not-found only for an
\* id that is not in the table; and a poll of an id whose result is set goes
\* from the lookup to the answer "completed" with that result, so that every
\* poll after one that returned the text T returns T again.
C20_RecordsPersist ==
    /\ [][\A id \in DOMAIN tasks :
            /\ id \in DOMAIN tasks'
            /\ HasResult(id) => tasks'[id] = tasks[id]]_vars
    /\ [][poll' # poll => tasks' = tasks]_vars
    /\ [][\A p \in Pollers :
            (Responds(p) /\ poll'[p].resp.kind = "not_found") =>
                poll'[p].task_id \notin DOMAIN tasks]_vars
    /\ [](\A p \in Pollers :
            (poll[p].pc = "done" /\ poll[p].resp.kind = "file") =>
                /\ HasResult(poll[p].task_id)
                /\ poll[p].resp = Completed(poll[p].task_id))
    /\ [][\A p \in Pollers :
            (poll'[p] # poll[p] /\ HasResult(poll'[p].task_id)) =>
                /\ poll[p].pc \in {"idle", "done"} => poll'[p].pc = "check_completed"
                /\ poll[p].pc = "check_completed" => poll'[p].pc = "send_file"
                /\ poll[p].pc = "send_file" =>
                       /\ poll'[p].pc = "done"
                       /\ poll'[p].resp = Completed(poll[p].task_id)]_vars

\* The second poll of a completed job has returned its text.
C20_Witness ==
    \E p \in Pollers, s \in Submitters :
        /\ polls = 2 /\ poll[p].pc = "done"
        /\ poll[p].task_id = run[s].task_id
        /\ run[s].output = Returned(<<Chunk1, Chunk2>>)
        /\ poll[p].resp = Response(200, "file", "", poll[p].task_id,
                                   Utf8(Encode(<<Chunk1, Chunk2>>)))
====
